---- MODULE Spec2Model ----
(***************************************************************************)
(* The services CRUD routes of the zoo-product-form app and their          *)
(* synchronisation with the shop's zoo_service metaobjects.                *)
(*                                                                         *)
(* Every request handler (a route's `action`) is a process that runs from  *)
(* one `await` to the next: each action below is one such segment.  The    *)
(* store (Prisma, table Service) and the remote shop (Admin GraphQL) are   *)
(* shared by all requests.                                                 *)
(***************************************************************************)
EXTENDS Integers, Sequences, FiniteSets, TLC

\* ------------------------------------------------------------------ bounds
\* ids the store hands out (AUTOINCREMENT never reuses one)
MaxServices == 2
\* requests served in one behaviour
MaxRequests == 3
\* definitions of other types listed ahead of zoo_service in the shop
OtherDefs == 50

\* metaobjectDefinitions(first: 50)
PageSize == 50

\* ------------------------------------------------------------------ values
\* the value null of an optional column or an absent form field
Null == <<"null">>
\* metaobjectId null (a falsy id)
NoId == 0
\* white space, as String.prototype.trim sees it
WS == " "

Procs == {1, 2}
\* the process that serves the requests when they come one at a time
Workers == {1}

\* what the form of a request may carry in title / description / imageUrl
FormValues ==
    { [title |-> Null,             description |-> Null,       imageUrl |-> Null],
      [title |-> <<WS, WS>>,       description |-> <<"d">>,    imageUrl |-> <<>>],
      [title |-> <<WS, "a", WS>>,  description |-> <<WS>>,     imageUrl |-> Null],
      [title |-> <<"b">>,          description |-> <<"d", WS>>, imageUrl |-> <<"u">>] }

\* what a remote call may do: answer with the object, answer with userErrors,
\* answer with no data, or throw
Outcomes == {"ok", "userErrors", "nodata", "throw"}

\* ------------------------------------------------------------- pure helpers
RECURSIVE TrimStart(_)
TrimStart(s) ==
    IF s # <<>> /\ Head(s) = WS THEN TrimStart(Tail(s)) ELSE s

RECURSIVE TrimEnd(_)
TrimEnd(s) ==
    IF s # <<>> /\ s[Len(s)] = WS THEN TrimEnd(SubSeq(s, 1, Len(s) - 1)) ELSE s

\* String.prototype.trim
Trim(s) == TrimEnd(TrimStart(s))

\* String(formData.get(name) || ""), the trim forgotten
FormFieldUntrimmed(v) == IF v = Null THEN <<>> ELSE v

\* String(formData.get(name) || "").trim()
FormField(v) == Trim(IF v = Null THEN <<>> ELSE v)

\* the three trimmed fields of a form
FormTrimmed(f) ==
    [title       |-> FormField(f.title),
     description |-> FormField(f.description),
     imageUrl    |-> FormField(f.imageUrl)]

\* the value stored as it is, the `|| null` forgotten
OrNullKept(v) == v

\* value || null
OrNull(v) == IF v = <<>> THEN Null ELSE v

\* a string is truthy when it is neither null nor empty
Truthy(v) == v # Null /\ v # <<>>

\* `service-${service.id}`
HandleOf(id) == <<"service-", id>>
NoHandle == <<>>

\* the handle argument of metaobjectUpsert / the id of metaobjectDelete
ByType == [by |-> "type", id |-> NoId, handle |-> NoHandle]
ById(g) == [by |-> "id", id |-> g, handle |-> NoHandle]
ByHandle(h) == [by |-> "handle", id |-> NoId, handle |-> h]
NoAddr == [by |-> "none", id |-> NoId, handle |-> NoHandle]

\* the metaobject fields the services routes send (image goes under "image")
RouteFields(title, description, imageUrl) ==
    <<[key |-> "title", value |-> title]>>
    \o (IF Truthy(description)
          THEN <<[key |-> "description", value |-> description]>> ELSE <<>>)
    \o (IF Truthy(imageUrl)
          THEN <<[key |-> "image", value |-> imageUrl]>> ELSE <<>>)

\* the metaobject fields the setup route sends (image goes under "image_url")
SetupFields(service) ==
    <<[key |-> "title", value |-> service.title]>>
    \o (IF Truthy(service.description)
          THEN <<[key |-> "description", value |-> service.description]>> ELSE <<>>)
    \o (IF Truthy(service.imageUrl)
          THEN <<[key |-> "image_url", value |-> service.imageUrl]>> ELSE <<>>)

\* fieldDefinitions of the zoo_service definition the setup route creates
DefinitionKeys == {"title", "description", "image_url"}

Range(s) == { s[i] : i \in DOMAIN s }

\* ------------------------------------------------------------------- state
VARIABLES
    store,      \* table Service: id -> row, for the rows that exist
    nextId,     \* the next AUTOINCREMENT id
    remote,     \* the shop's zoo_service metaobjects: gid -> entry
    nextGid,    \* the next metaobject id the shop hands out
    zooDef,     \* whether the shop has the zoo_service definition
    defsAhead,  \* how many definitions the shop lists before zoo_service
    proc,       \* the request each process is serving, and where it is
    served,     \* requests started so far
    refWrites,  \* id -> number of store writes that set metaobjectId
    upsertOk,   \* ids of the services for which an upsert returned an object
    refLost,    \* ids for which the store write of a returned id threw
    gone,       \* id -> the metaobjectId of the row when it was deleted
    madeFor,    \* gid -> the id of the service whose upsert created the entry
    failed      \* whether an earlier request met a failure

vars == <<store, nextId, remote, nextGid, zooDef, defsAhead, proc, served,
          refWrites, upsertOk, refLost, gone, madeFor, failed>>

NoResult == [type |-> "none"]
NoExisting == [found |-> FALSE, metaobjectId |-> NoId]
NoVals == [title |-> <<>>, description |-> <<>>, imageUrl |-> <<>>]

NoStats == [total |-> 0, success |-> 0, errors |-> 0]

\* a setup run that no setup run came just before
NoPrior ==
    [setup |-> FALSE, answersOk |-> FALSE, stats |-> NoStats,
     store |-> <<>>, remote |-> <<>>]

Idle ==
    [kind |-> "none", pc |-> "idle", id |-> 0, form |-> NoVals, vals |-> NoVals,
     existing |-> NoExisting, mid |-> NoId, result |-> NoResult,
     logs |-> <<>>, calls |-> <<>>, answers |-> <<>>, writes |-> 0,
     zooAtStart |-> FALSE, prior |-> NoPrior,
     services |-> <<>>, idx |-> 0, successCount |-> 0, errorCount |-> 0]

Init ==
    /\ store = <<>>
    /\ nextId = 1
    /\ remote = <<>>
    /\ nextGid = 1
    /\ zooDef \in BOOLEAN
    /\ defsAhead \in {0, OtherDefs}
    /\ proc = [p \in Procs |-> Idle]
    /\ served = 0
    /\ refWrites = [i \in {} |-> 0]
    /\ upsertOk = {}
    /\ refLost = {}
    /\ gone = [i \in {} |-> NoId]
    /\ madeFor = [g \in {} |-> 0]
    /\ failed = FALSE

\* --------------------------------------------------------------- the store
\* prisma.service.create({data}): the new row (metaobjectId defaults to null)
StoreCreate(data) ==
    [i \in DOMAIN store \cup {nextId} |->
        IF i = nextId
          THEN [title |-> data.title, description |-> data.description,
                imageUrl |-> data.imageUrl, metaobjectId |-> NoId]
          ELSE store[i]]

\* prisma.service.findUnique({where: {id}}): the row, or null
StoreFindUnique(id) ==
    IF id \in DOMAIN store
      THEN [found |-> TRUE, metaobjectId |-> store[id].metaobjectId]
      ELSE NoExisting

\* an update whose data carries metaobjectId: null
StoreUpdateFieldsClearingRef(id, data) ==
    [store EXCEPT ![id] = [title |-> data.title, description |-> data.description,
                           imageUrl |-> data.imageUrl, metaobjectId |-> NoId]]

\* prisma.service.update({where: {id}, data: {title, description, imageUrl}})
StoreUpdateFields(id, data) ==
    [store EXCEPT ![id] = [title |-> data.title, description |-> data.description,
                           imageUrl |-> data.imageUrl,
                           metaobjectId |-> store[id].metaobjectId]]

\* prisma.service.update({where: {id}, data: {metaobjectId}})
StoreSetRef(id, gid) ==
    [store EXCEPT ![id].metaobjectId = gid]

\* prisma.service.delete({where: {id}})
StoreDelete(id) ==
    [i \in DOMAIN store \ {id} |-> store[i]]

\* the deleted rows' metaobjectIds, with that of row id
Gone(id) ==
    [i \in DOMAIN gone \cup {id} |-> IF i = id THEN store[id].metaobjectId ELSE gone[i]]

\* the count of metaobjectId writes, one more for id
CountRefWrite(id) ==
    [i \in DOMAIN refWrites \cup {id} |->
        IF i = id THEN (IF i \in DOMAIN refWrites THEN refWrites[i] ELSE 0) + 1
                  ELSE refWrites[i]]

\* the services the shop's entries were created for, after an accepted upsert
\* of service id
MadeFor(id, created) ==
    IF created
      THEN [g \in DOMAIN madeFor \cup {nextGid} |->
               IF g = nextGid THEN id ELSE madeFor[g]]
      ELSE madeFor

\* ---------------------------------------------------------------- the shop
\* fields of an entry after an upsert that sends `fields`
MergeFields(old, fields) ==
    { f \in old : \A i \in DOMAIN fields : fields[i].key # f.key }
    \cup Range(fields)

\* the entry an upsert addresses, or NoId when it addresses none that exists
Addressed(addr) ==
    IF addr.by = "id"
      THEN (IF addr.id \in DOMAIN remote THEN addr.id ELSE NoId)
    ELSE IF addr.by = "handle"
      THEN (IF \E g \in DOMAIN remote : remote[g].handle = addr.handle
              THEN CHOOSE g \in DOMAIN remote : remote[g].handle = addr.handle
              ELSE NoId)
    ELSE NoId

\* whether the shop can answer an upsert with an object
CanUpsert(addr) == addr.by = "id" => Addressed(addr) # NoId

\* the id of the object an accepted upsert returns
UpsertId(addr) == IF Addressed(addr) # NoId THEN Addressed(addr) ELSE nextGid

\* the shop's metaobjects after an accepted upsert
RemoteUpsert(addr, fields) ==
    LET g == UpsertId(addr) IN
    [x \in DOMAIN remote \cup {g} |->
        IF x = g
          THEN [handle |-> IF g \in DOMAIN remote THEN remote[g].handle ELSE addr.handle,
                fields |-> MergeFields(IF g \in DOMAIN remote THEN remote[g].fields ELSE {},
                                       fields)]
          ELSE remote[x]]

\* the shop's metaobjects after an accepted metaobjectDelete(id)
RemoteDelete(g) ==
    [x \in DOMAIN remote \ {g} |-> remote[x]]

\* whether metaobjectDefinitions(first: 50) lists the zoo_service definition
DefinitionListed == zooDef /\ defsAhead < PageSize

\* ------------------------------------------------------- request processes
Redirect(to) == [type |-> "redirect", to |-> to]
TitleError(msg, vals) ==
    [type |-> "errors", errors |-> [title |-> msg], values |-> vals]
FormError(msg) == [type |-> "errors", errors |-> [form |-> msg]]

UpsertCall(addr, fields) ==
    [op |-> "metaobjectUpsert", addr |-> addr, fields |-> fields]
DeleteCall(g) ==
    [op |-> "metaobjectDelete", addr |-> ById(g), fields |-> <<>>]
DefinitionsQuery ==
    [op |-> "metaobjectDefinitions", addr |-> NoAddr, fields |-> <<>>]
DefinitionCreate ==
    [op |-> "metaobjectDefinitionCreate", addr |-> NoAddr, fields |-> <<>>]

\* a process is free to take a request
Free(p) == proc[p].pc \in {"idle", "done"}

\* creates that have been accepted and have not reached the store yet
PendingCreates == Cardinality({ q \in Procs : proc[q].pc = "create" })

\* the finished request q met a failure: a remote call that was not answered
\* with the object, or a store call that threw
Faulty(q) ==
    /\ q.pc = "done"
    /\ \/ \E i \in DOMAIN q.answers : q.answers[i] # "ok"
       \/ q.result.type = "errors" /\ q.result.errors # [title |-> "Title is required"]
       \/ q.result.type = "data" /\ "success" \notin DOMAIN q.result
       \/ q.result.type = "report" /\ ~q.result.success
       \/ q.result.type = "report" /\ q.result.success /\ q.result.stats.errors > 0

\* what a setup run that starts after request q keeps of it: the report of
\* q when q was a setup run, and the store and the shop as q left them
Prior(q) ==
    IF q.kind = "setup" /\ q.pc = "done" /\ q.result.success
      THEN [setup |-> TRUE,
            answersOk |-> \A i \in DOMAIN q.answers : q.answers[i] = "ok",
            stats |-> q.result.stats, store |-> store, remote |-> remote]
      ELSE NoPrior

\* a request arrives at process p
Arrives(p) ==
    /\ Free(p)
    /\ served < MaxRequests
    /\ served' = served + 1
    /\ failed' = (failed \/ Faulty(proc[p]))

\* the handler returns r
Return(q, r) == [q EXCEPT !.pc = "done", !.result = r]

\* a remote call and its answer, as the request saw them
Called(q, call, o) ==
    [q EXCEPT !.calls = Append(@, call), !.answers = Append(@, o)]

\* ---- routes/app.services.new.jsx: action
\* formData, trim, validation
NewSubmit(p) ==
    /\ Arrives(p)
    /\ \E f \in FormValues :
        LET v == FormTrimmed(f)
            q == [Idle EXCEPT !.kind = "new", !.form = f, !.vals = v] IN
        \/ /\ v.title = <<>>
           /\ proc' = [proc EXCEPT ![p] =
                  [q EXCEPT !.pc = "done",
                            !.result = TitleError("Title is required", v)]]
        \/ /\ v.title # <<>>
           /\ nextId + PendingCreates <= MaxServices
           /\ proc' = [proc EXCEPT ![p] = [q EXCEPT !.pc = "create"]]
    /\ UNCHANGED <<store, nextId, remote, nextGid, zooDef, defsAhead,
                   refWrites, upsertOk, madeFor, refLost, gone>>

NewFailed(q) ==
    Return(q, TitleError("Failed to create service. Please try again.", q.vals))

\* prisma.service.create
NewCreate(p) ==
    /\ proc[p].kind = "new" /\ proc[p].pc = "create"
    /\ \/ /\ store' = StoreCreate([title |-> proc[p].vals.title,
                                    description |-> OrNull(proc[p].vals.description),
                                    imageUrl |-> OrNull(proc[p].vals.imageUrl)])
          /\ nextId' = nextId + 1
          /\ proc' = [proc EXCEPT ![p] =
                 [proc[p] EXCEPT !.pc = "upsert", !.id = nextId,
                                 !.writes = @ + 1]]
       \/ \* the store throws
          /\ proc' = [proc EXCEPT ![p] = NewFailed(proc[p])]
          /\ UNCHANGED <<store, nextId>>
    /\ UNCHANGED <<remote, nextGid, zooDef, defsAhead, served, failed, refWrites, upsertOk, madeFor, refLost, gone>>

\* the handle the create route upserts by
NewHandle == ByType

\* the create route without the catch around the sync: the throw escapes
NewAfterUpsertUncaught(q, o) ==
    IF o = "ok" THEN [q EXCEPT !.pc = "persist", !.mid = UpsertId(NewHandle)]
    ELSE IF o = "throw" THEN Return(q, [type |-> "thrown"])
    ELSE Return(q, Redirect("/app"))

\* what the create route does with the answer of metaobjectUpsert
NewAfterUpsert(q, o) ==
    IF o = "ok" THEN [q EXCEPT !.pc = "persist", !.mid = UpsertId(NewHandle)]
    ELSE IF o = "throw" THEN NewFailed(q)
    ELSE Return(q, Redirect("/app"))

\* admin.graphql(metaobjectUpsert) and the branch on its answer
NewUpsert(p) ==
    /\ proc[p].kind = "new" /\ proc[p].pc = "upsert"
    /\ LET fields == RouteFields(proc[p].vals.title, proc[p].vals.description,
                                 proc[p].vals.imageUrl)
       IN
       \E o \in Outcomes :
        /\ proc' = [proc EXCEPT ![p] =
               NewAfterUpsert(Called(proc[p], UpsertCall(NewHandle, fields), o), o)]
        /\ \/ /\ o = "ok"
              /\ remote' = RemoteUpsert(NewHandle, fields)
              /\ nextGid' = nextGid + 1
              /\ upsertOk' = upsertOk \cup {proc[p].id}
              /\ madeFor' = MadeFor(proc[p].id, TRUE)
           \/ /\ o # "ok"
              /\ UNCHANGED <<remote, nextGid, upsertOk, madeFor>>
    /\ UNCHANGED <<store, nextId, zooDef, defsAhead, served, failed, refWrites, refLost, gone>>

\* prisma.service.update({data: {metaobjectId}})
NewPersist(p) ==
    /\ proc[p].kind = "new" /\ proc[p].pc = "persist"
    /\ \/ /\ proc[p].id \in DOMAIN store
          /\ store' = StoreSetRef(proc[p].id, proc[p].mid)
          /\ refWrites' = CountRefWrite(proc[p].id)
          /\ UNCHANGED refLost
          /\ proc' = [proc EXCEPT ![p] =
                 [Return(proc[p], Redirect("/app")) EXCEPT !.writes = @ + 1]]
       \/ \* the store throws
          /\ proc' = [proc EXCEPT ![p] = NewFailed(proc[p])]
          /\ refLost' = refLost \cup {proc[p].id}
          /\ UNCHANGED <<store, refWrites>>
    /\ UNCHANGED <<nextId, remote, nextGid, zooDef, defsAhead, served, failed, upsertOk, madeFor, gone>>

\* ---- unnamed/part_000 (the create route without the sync): action
PlainNewSubmit(p) ==
    /\ Arrives(p)
    /\ \E f \in FormValues :
        LET v == FormTrimmed(f)
            q == [Idle EXCEPT !.kind = "plainNew", !.form = f, !.vals = v] IN
        \/ /\ v.title = <<>>
           /\ proc' = [proc EXCEPT ![p] =
                  [q EXCEPT !.pc = "done",
                            !.result = TitleError("Title is required", v)]]
        \/ /\ v.title # <<>>
           /\ nextId + PendingCreates <= MaxServices
           /\ proc' = [proc EXCEPT ![p] = [q EXCEPT !.pc = "create"]]
    /\ UNCHANGED <<store, nextId, remote, nextGid, zooDef, defsAhead,
                   refWrites, upsertOk, madeFor, refLost, gone>>

PlainNewCreate(p) ==
    /\ proc[p].kind = "plainNew" /\ proc[p].pc = "create"
    /\ \/ /\ store' = StoreCreate([title |-> proc[p].vals.title,
                                    description |-> OrNull(proc[p].vals.description),
                                    imageUrl |-> OrNull(proc[p].vals.imageUrl)])
          /\ nextId' = nextId + 1
          /\ proc' = [proc EXCEPT ![p] =
                 [Return(proc[p], Redirect("/app")) EXCEPT !.id = nextId, !.writes = @ + 1]]
       \/ \* the store throws
          /\ proc' = [proc EXCEPT ![p] = NewFailed(proc[p])]
          /\ UNCHANGED <<store, nextId>>
    /\ UNCHANGED <<remote, nextGid, zooDef, defsAhead, served, failed, refWrites, upsertOk, madeFor, refLost, gone>>

\* ---- routes/app.services.$id.edit.jsx: action, the update
UpdateSubmit(p) ==
    /\ Arrives(p)
    /\ \E id \in 1..MaxServices, f \in FormValues :
        LET v == FormTrimmed(f)
            q == [Idle EXCEPT !.kind = "update", !.form = f, !.vals = v, !.id = id] IN
        \/ /\ v.title = <<>>
           /\ proc' = [proc EXCEPT ![p] =
                  [q EXCEPT !.pc = "done",
                            !.result = TitleError("Title is required", v)]]
        \/ /\ v.title # <<>>
           /\ proc' = [proc EXCEPT ![p] = [q EXCEPT !.pc = "find"]]
    /\ UNCHANGED <<store, nextId, remote, nextGid, zooDef, defsAhead,
                   refWrites, upsertOk, madeFor, refLost, gone>>

UpdateFailed(q) ==
    Return(q, TitleError("Failed to update service. Please try again.", q.vals))

\* prisma.service.findUnique
UpdateFind(p) ==
    /\ proc[p].kind = "update" /\ proc[p].pc = "find"
    /\ \/ proc' = [proc EXCEPT ![p] =
              [proc[p] EXCEPT !.pc = "write", !.existing = StoreFindUnique(proc[p].id)]]
       \/ \* the store throws
          proc' = [proc EXCEPT ![p] = UpdateFailed(proc[p])]
    /\ UNCHANGED <<store, nextId, remote, nextGid, zooDef, defsAhead, served, failed,
                   refWrites, upsertOk, madeFor, refLost, gone>>

\* prisma.service.update({data: {title, description, imageUrl}})
UpdateWrite(p) ==
    /\ proc[p].kind = "update" /\ proc[p].pc = "write"
    /\ \/ /\ proc[p].id \in DOMAIN store
          /\ store' = StoreUpdateFields(proc[p].id,
                         [title |-> proc[p].vals.title,
                          description |-> OrNull(proc[p].vals.description),
                          imageUrl |-> OrNull(proc[p].vals.imageUrl)])
          /\ proc' = [proc EXCEPT ![p] =
                 [proc[p] EXCEPT !.pc = "upsert", !.writes = @ + 1]]
       \/ \* the store throws (no such row, or a fault)
          /\ proc' = [proc EXCEPT ![p] = UpdateFailed(proc[p])]
          /\ UNCHANGED store
    /\ UNCHANGED <<nextId, remote, nextGid, zooDef, defsAhead, served, failed,
                   refWrites, upsertOk, madeFor, refLost, gone>>

\* the update upserting by the bare type whatever it read
UpdateHandleBare(existing) == ByType

\* the handle the update upserts by
UpdateHandle(existing) ==
    IF existing.metaobjectId # NoId THEN ById(existing.metaobjectId) ELSE ByType

\* whether the update persists the id the upsert returned
UpdatePersists(existing) == existing.metaobjectId = NoId

\* the update treating userErrors as a failure
UpdateAfterUpsertStrict(q, o) ==
    IF o = "ok" /\ UpdatePersists(q.existing)
      THEN [q EXCEPT !.pc = "persist", !.mid = UpsertId(UpdateHandle(q.existing))]
    ELSE IF o \in {"throw", "userErrors"} THEN UpdateFailed(q)
    ELSE Return(q, Redirect("/app/services"))

\* what the update does with the answer of metaobjectUpsert
UpdateAfterUpsert(q, o) ==
    IF o = "ok" /\ UpdatePersists(q.existing)
      THEN [q EXCEPT !.pc = "persist", !.mid = UpsertId(UpdateHandle(q.existing))]
    ELSE IF o = "throw" THEN UpdateFailed(q)
    ELSE Return(q, Redirect("/app/services"))

\* admin.graphql(metaobjectUpsert) and the branch on its answer
UpdateUpsert(p) ==
    /\ proc[p].kind = "update" /\ proc[p].pc = "upsert"
    /\ LET fields == RouteFields(proc[p].vals.title, proc[p].vals.description,
                                 proc[p].vals.imageUrl)
           addr == UpdateHandle(proc[p].existing)
       IN
       \E o \in Outcomes :
        /\ proc' = [proc EXCEPT ![p] =
               UpdateAfterUpsert(Called(proc[p], UpsertCall(addr, fields), o), o)]
        /\ \/ /\ o = "ok"
              /\ CanUpsert(addr)
              /\ remote' = RemoteUpsert(addr, fields)
              /\ nextGid' = IF UpsertId(addr) = nextGid THEN nextGid + 1 ELSE nextGid
              /\ upsertOk' = upsertOk \cup {proc[p].id}
              /\ madeFor' = MadeFor(proc[p].id, UpsertId(addr) = nextGid)
           \/ /\ o # "ok"
              /\ UNCHANGED <<remote, nextGid, upsertOk, madeFor>>
    /\ UNCHANGED <<store, nextId, zooDef, defsAhead, served, failed, refWrites, refLost, gone>>

\* prisma.service.update({data: {metaobjectId}})
UpdatePersist(p) ==
    /\ proc[p].kind = "update" /\ proc[p].pc = "persist"
    /\ \/ /\ proc[p].id \in DOMAIN store
          /\ store' = StoreSetRef(proc[p].id, proc[p].mid)
          /\ refWrites' = CountRefWrite(proc[p].id)
          /\ UNCHANGED refLost
          /\ proc' = [proc EXCEPT ![p] =
                 [Return(proc[p], Redirect("/app/services")) EXCEPT !.writes = @ + 1]]
       \/ \* the store throws
          /\ proc' = [proc EXCEPT ![p] = UpdateFailed(proc[p])]
          /\ refLost' = refLost \cup {proc[p].id}
          /\ UNCHANGED <<store, refWrites>>
    /\ UNCHANGED <<nextId, remote, nextGid, zooDef, defsAhead, served, failed, upsertOk, madeFor, gone>>

\* ---- routes/app.services.$id.edit.jsx: action, intent "delete"
DeleteSubmit(p) ==
    /\ Arrives(p)
    /\ \E id \in 1..MaxServices :
        proc' = [proc EXCEPT ![p] =
            [Idle EXCEPT !.kind = "delete", !.id = id, !.pc = "find"]]
    /\ UNCHANGED <<store, nextId, remote, nextGid, zooDef, defsAhead,
                   refWrites, upsertOk, madeFor, refLost, gone>>

\* the delete intent going on to metaobjectDelete after a store call threw
DeleteFailedGoesOn(q) == [q EXCEPT !.pc = "remoteDelete"]

DeleteFailed(q) ==
    Return(q, FormError("Failed to delete service. Please try again."))

\* prisma.service.findUnique
DeleteFind(p) ==
    /\ proc[p].kind = "delete" /\ proc[p].pc = "find"
    /\ \/ proc' = [proc EXCEPT ![p] =
              [proc[p] EXCEPT !.pc = "delete", !.existing = StoreFindUnique(proc[p].id)]]
       \/ \* the store throws
          proc' = [proc EXCEPT ![p] = DeleteFailed(proc[p])]
    /\ UNCHANGED <<store, nextId, remote, nextGid, zooDef, defsAhead, served, failed,
                   refWrites, upsertOk, madeFor, refLost, gone>>

\* the delete intent calling metaobjectDelete whatever the row held
DeleteSyncsAlways(existing) == TRUE

\* whether the delete intent goes on to metaobjectDelete
DeleteSyncs(existing) == existing.metaobjectId # NoId

\* prisma.service.delete, then the test of service?.metaobjectId
DeleteLocal(p) ==
    /\ proc[p].kind = "delete" /\ proc[p].pc = "delete"
    /\ \/ /\ proc[p].id \in DOMAIN store
          /\ store' = StoreDelete(proc[p].id)
          /\ gone' = Gone(proc[p].id)
          /\ proc' = [proc EXCEPT ![p] =
                 IF DeleteSyncs(proc[p].existing)
                   THEN [proc[p] EXCEPT !.pc = "remoteDelete", !.writes = @ + 1]
                   ELSE [Return(proc[p], Redirect("/app/services")) EXCEPT !.writes = @ + 1]]
       \/ \* the store throws (no such row, or a fault)
          /\ proc' = [proc EXCEPT ![p] = DeleteFailed(proc[p])]
          /\ UNCHANGED <<store, gone>>
    /\ UNCHANGED <<nextId, remote, nextGid, zooDef, defsAhead, served, failed,
                   refWrites, upsertOk, madeFor, refLost>>

\* admin.graphql(metaobjectDelete); whatever it does, the redirect follows
DeleteRemote(p) ==
    /\ proc[p].kind = "delete" /\ proc[p].pc = "remoteDelete"
    /\ LET g == proc[p].existing.metaobjectId IN
       \E o \in Outcomes :
        /\ proc' = [proc EXCEPT ![p] =
               Return(Called(proc[p], DeleteCall(g), o), Redirect("/app/services"))]
        /\ \/ /\ o = "ok"
              /\ remote' = RemoteDelete(g)
           \/ \* userErrors, no data, or a throw that the inner catch swallows
              /\ o # "ok"
              /\ UNCHANGED remote
    /\ UNCHANGED <<store, nextId, nextGid, zooDef, defsAhead, served, failed,
                   refWrites, upsertOk, madeFor, refLost, gone>>

\* ---- routes/app.services._index.jsx: action
\* request.method === "DELETE" && serviceId
ListDeleteSubmit(p) ==
    /\ Arrives(p)
    /\ \/ \E id \in 1..MaxServices :
            proc' = [proc EXCEPT ![p] =
                [Idle EXCEPT !.kind = "listDelete", !.id = id, !.pc = "delete"]]
       \/ proc' = [proc EXCEPT ![p] =
              [Idle EXCEPT !.kind = "listDelete", !.pc = "done",
                           !.result = [type |-> "data", error |-> "Invalid request"]]]
    /\ UNCHANGED <<store, nextId, remote, nextGid, zooDef, defsAhead,
                   refWrites, upsertOk, madeFor, refLost, gone>>

\* prisma.service.delete
ListDeleteLocal(p) ==
    /\ proc[p].kind = "listDelete" /\ proc[p].pc = "delete"
    /\ \/ /\ proc[p].id \in DOMAIN store
          /\ store' = StoreDelete(proc[p].id)
          /\ gone' = Gone(proc[p].id)
          /\ proc' = [proc EXCEPT ![p] =
                 [Return(proc[p], [type |-> "data", success |-> TRUE]) EXCEPT !.writes = @ + 1]]
       \/ \* the store throws (no such row, or a fault)
          /\ proc' = [proc EXCEPT ![p] =
                 Return(proc[p], [type |-> "data", error |-> "Failed to delete service"])]
          /\ UNCHANGED <<store, gone>>
    /\ UNCHANGED <<nextId, remote, nextGid, zooDef, defsAhead, served, failed,
                   refWrites, upsertOk, madeFor, refLost>>

\* ---- unnamed/part_001 (the setup route): action
\* a line of the log the setup route returns; `about` is the service's place
\* in the list for the lines of the loop, 0 for the others
Log(type, message, about) == [type |-> type, message |-> message, about |-> about]

\* logs.push
Push(q, line) == [q EXCEPT !.logs = Append(@, line)]

\* the outer catch: a fatal error
SetupFatal(q) ==
    Return(Push(q, Log("error", "Fatal error", 0)),
           [type |-> "report", success |-> FALSE])

\* step 1 starts
SetupStart(p) ==
    /\ Arrives(p)
    /\ proc' = [proc EXCEPT ![p] =
           Push([Idle EXCEPT !.kind = "setup", !.pc = "queryDefs",
                             !.zooAtStart = zooDef, !.prior = Prior(proc[p])],
                Log("info", "Checking for existing metaobject definition...", 0))]
    /\ UNCHANGED <<store, nextId, remote, nextGid, zooDef, defsAhead,
                   refWrites, upsertOk, madeFor, refLost, gone>>

\* step 3 starts: the log line before prisma.service.findMany
SetupToFetch(q) ==
    [Push(q, Log("info", "Fetching services from database...", 0)) EXCEPT
        !.pc = "findMany"]

\* the branch on existingDefinition
SetupAfterQuery(q, listed) ==
    IF listed
      THEN SetupToFetch(Push(q, Log("success", "Found existing metaobject definition", 0)))
      ELSE [Push(q, Log("info", "Creating zoo_service metaobject definition...", 0))
               EXCEPT !.pc = "createDef"]

\* admin.graphql(metaobjectDefinitions(first: 50)) and the search of its edges
SetupQueryDefs(p) ==
    /\ proc[p].kind = "setup" /\ proc[p].pc = "queryDefs"
    /\ \/ proc' = [proc EXCEPT ![p] =
              SetupAfterQuery(Called(proc[p], DefinitionsQuery, "ok"), DefinitionListed)]
       \/ \* the call throws, or answers without data
          \E o \in {"throw", "nodata"} :
            proc' = [proc EXCEPT ![p] = SetupFatal(Called(proc[p], DefinitionsQuery, o))]
    /\ UNCHANGED <<store, nextId, remote, nextGid, zooDef, defsAhead, served, failed,
                   refWrites, upsertOk, madeFor, refLost, gone>>

\* the definition is created: its log line, then step 3
SetupCreated(q) ==
    SetupToFetch(Push(q, Log("success", "Created metaobject definition", 0)))

\* metaobjectDefinitionCreate answers userErrors, the return forgotten
SetupCreateFailedGoesOn(q) ==
    SetupToFetch(Push(q, Log("error", "Failed to create definition", 0)))

\* metaobjectDefinitionCreate answers userErrors: the error line and the return
SetupCreateFailed(q) ==
    Return(Push(q, Log("error", "Failed to create definition", 0)),
           [type |-> "report", success |-> FALSE])

\* admin.graphql(metaobjectDefinitionCreate) and the branch on its userErrors
SetupCreateDef(p) ==
    /\ proc[p].kind = "setup" /\ proc[p].pc = "createDef"
    /\ \/ \* the shop creates the definition (a type exists once)
          /\ ~zooDef
          /\ zooDef' = TRUE
          /\ proc' = [proc EXCEPT ![p] =
                 SetupCreated(Called(proc[p], DefinitionCreate, "ok"))]
       \/ \* userErrors
          /\ proc' = [proc EXCEPT ![p] =
                 SetupCreateFailed(Called(proc[p], DefinitionCreate, "userErrors"))]
          /\ UNCHANGED zooDef
       \/ \* the call throws, or answers without data
          /\ \E o \in {"throw", "nodata"} :
                proc' = [proc EXCEPT ![p] =
                    SetupFatal(Called(proc[p], DefinitionCreate, o))]
          /\ UNCHANGED zooDef
    /\ UNCHANGED <<store, nextId, remote, nextGid, defsAhead, served, failed,
                   refWrites, upsertOk, madeFor, refLost, gone>>

\* prisma.service.findMany(): the rows, in the order of their ids
StoreFindMany ==
    LET ids == DOMAIN store
        nth(k) == CHOOSE i \in ids : Cardinality({ j \in ids : j < i }) = k - 1
    IN [k \in 1..Cardinality(ids) |->
           [id |-> nth(k), title |-> store[nth(k)].title,
            description |-> store[nth(k)].description,
            imageUrl |-> store[nth(k)].imageUrl]]

\* the end of step 4: the summary line and the report
SetupComplete(q) ==
    [Push(q, Log("info", "=== Sync Complete ===", 0)) EXCEPT
        !.pc = "done",
        !.result = [type |-> "report", success |-> TRUE,
                    stats |-> [total   |-> Len(q.services),
                               success |-> q.successCount,
                               errors  |-> q.errorCount]]]

\* the for loop goes to the next service, or ends
SetupLoop(q) ==
    IF q.idx < Len(q.services)
      THEN [q EXCEPT !.pc = "upsert", !.idx = @ + 1]
      ELSE SetupComplete(q)

\* prisma.service.findMany and the second log line of step 3
SetupFindMany(p) ==
    /\ proc[p].kind = "setup" /\ proc[p].pc = "findMany"
    /\ \/ proc' = [proc EXCEPT ![p] =
              SetupLoop(Push([proc[p] EXCEPT !.services = StoreFindMany],
                             Log("info", "Found services to sync", 0)))]
       \/ \* the store throws
          proc' = [proc EXCEPT ![p] = SetupFatal(proc[p])]
    /\ UNCHANGED <<store, nextId, remote, nextGid, zooDef, defsAhead, served, failed,
                   refWrites, upsertOk, madeFor, refLost, gone>>

\* the setup route upserting by the bare type, as the routes do
SetupHandleBare(service) == ByType

\* the handle the setup route upserts by
SetupHandle(service) == ByHandle(HandleOf(service.id))

\* the service fails, the errorCount++ forgotten
SetupServiceErrorUncounted(q, message) ==
    SetupLoop(Push(q, Log("error", message, q.idx)))

\* the service fails and the loop breaks off
SetupServiceErrorStops(q, message) ==
    SetupComplete([Push(q, Log("error", message, q.idx)) EXCEPT !.errorCount = @ + 1])

\* the service fails: an error line, errorCount++, the next service
SetupServiceError(q, message) ==
    SetupLoop([Push(q, Log("error", message, q.idx)) EXCEPT !.errorCount = @ + 1])

\* what the loop does with the answer of metaobjectUpsert
SetupAfterUpsert(q, o, addr) ==
    IF o = "ok" THEN [q EXCEPT !.pc = "persist", !.mid = UpsertId(addr)]
    ELSE IF o = "userErrors" THEN SetupServiceError(q, "Failed to sync")
    ELSE SetupServiceError(q, "Error syncing")

\* one turn of the loop up to the answer of admin.graphql(metaobjectUpsert)
SetupUpsert(p) ==
    /\ proc[p].kind = "setup" /\ proc[p].pc = "upsert"
    /\ LET service == proc[p].services[proc[p].idx]
           fields == SetupFields(service)
           addr == SetupHandle(service)
           started == Push(proc[p], Log("info", "Syncing service", proc[p].idx))
       IN
       \E o \in Outcomes :
        /\ proc' = [proc EXCEPT ![p] =
               SetupAfterUpsert(Called(started, UpsertCall(addr, fields), o), o, addr)]
        /\ \/ /\ o = "ok"
              /\ remote' = RemoteUpsert(addr, fields)
              /\ nextGid' = IF UpsertId(addr) = nextGid THEN nextGid + 1 ELSE nextGid
              /\ upsertOk' = upsertOk \cup {service.id}
              /\ madeFor' = MadeFor(service.id, UpsertId(addr) = nextGid)
           \/ /\ o # "ok"
              /\ UNCHANGED <<remote, nextGid, upsertOk, madeFor>>
    /\ UNCHANGED <<store, nextId, zooDef, defsAhead, served, failed, refWrites, refLost, gone>>

\* the service is synced, the success line forgotten
SetupServiceDoneSilent(q) ==
    SetupLoop([q EXCEPT !.successCount = @ + 1, !.writes = @ + 1])

\* the service is synced: a success line, successCount++, the next service
SetupServiceDone(q) ==
    SetupLoop([Push(q, Log("success", "Synced", q.idx)) EXCEPT
                  !.successCount = @ + 1, !.writes = @ + 1])

\* prisma.service.update({data: {metaobjectId}}) and the rest of the turn
SetupPersist(p) ==
    /\ proc[p].kind = "setup" /\ proc[p].pc = "persist"
    /\ LET id == proc[p].services[proc[p].idx].id IN
       \/ /\ id \in DOMAIN store
          /\ store' = StoreSetRef(id, proc[p].mid)
          /\ refWrites' = CountRefWrite(id)
          /\ UNCHANGED refLost
          /\ proc' = [proc EXCEPT ![p] = SetupServiceDone(proc[p])]
       \/ \* the store throws (no such row, or a fault)
          /\ proc' = [proc EXCEPT ![p] = SetupServiceError(proc[p], "Error syncing")]
          /\ refLost' = refLost \cup {id}
          /\ UNCHANGED <<store, refWrites>>
    /\ UNCHANGED <<nextId, remote, nextGid, zooDef, defsAhead, served, failed, upsertOk, madeFor, gone>>

New(p) == NewSubmit(p) \/ NewCreate(p) \/ NewUpsert(p) \/ NewPersist(p)

PlainNew(p) == PlainNewSubmit(p) \/ PlainNewCreate(p)

Update(p) ==
    UpdateSubmit(p) \/ UpdateFind(p) \/ UpdateWrite(p) \/ UpdateUpsert(p)
    \/ UpdatePersist(p)

Delete(p) == DeleteSubmit(p) \/ DeleteFind(p) \/ DeleteLocal(p) \/ DeleteRemote(p)

ListDelete(p) == ListDeleteSubmit(p) \/ ListDeleteLocal(p)

Setup(p) ==
    SetupStart(p) \/ SetupQueryDefs(p) \/ SetupCreateDef(p) \/ SetupFindMany(p)
    \/ SetupUpsert(p) \/ SetupPersist(p)

Handle(p) ==
    New(p) \/ PlainNew(p) \/ Update(p) \/ Delete(p) \/ ListDelete(p) \/ Setup(p)

Next == \E p \in Workers : Handle(p)

Spec == Init /\ [][Next]_vars

\* ---- two edit requests at once
\* a service that was never synced (the seed writes metaobjectId: null)
SeededRow ==
    [title |-> <<"a">>, description |-> Null, imageUrl |-> Null, metaobjectId |-> NoId]

\* a store with one service: a seeded one that was never synced, or one the
\* create route made and synced (entry 1 of the shop, by the bare type)
RaceInit ==
    /\ nextId = 2
    /\ zooDef = TRUE
    /\ defsAhead = 0
    /\ proc = [p \in Procs |-> Idle]
    /\ served = 0
    /\ refLost = {}
    /\ gone = [i \in {} |-> NoId]
    /\ failed = FALSE
    /\ \/ /\ store = [i \in {1} |-> SeededRow]
          /\ remote = <<>>
          /\ nextGid = 1
          /\ refWrites = [i \in {} |-> 0]
          /\ upsertOk = {}
          /\ madeFor = [g \in {} |-> 0]
       \/ /\ store = [i \in {1} |-> [SeededRow EXCEPT !.metaobjectId = 1]]
          /\ remote = [g \in {1} |->
                          [handle |-> NoHandle,
                           fields |-> Range(RouteFields(<<"a">>, <<>>, <<>>))]]
          /\ nextGid = 2
          /\ refWrites = [i \in {1} |-> 1]
          /\ upsertOk = {1}
          /\ madeFor = [g \in {1} |-> 1]

\* the server runs the edit action of each request as it arrives: two
\* requests interleave at their awaits
RaceNext == \E p \in Procs : Update(p)

RaceSpec == RaceInit /\ [][RaceNext]_vars

\* ================================================================ the claims
Last(q) == q[Len(q)]

\* process p has finished a request of one of the kinds
Finished(p, kinds) == proc[p].kind \in kinds /\ proc[p].pc = "done"

\* the row the create / update handler of process p wrote
Written(p) ==
    [title |-> proc[p].vals.title,
     description |-> OrNull(proc[p].vals.description),
     imageUrl |-> OrNull(proc[p].vals.imageUrl),
     metaobjectId |-> proc[p].existing.metaobjectId]

\* C1: a create or update request whose store write of title, description
\* and imageUrl succeeded ends with the redirect, whatever metaobjectUpsert
\* did afterwards; an error result comes only from a failed store write.
C1_SavedThenRedirect ==
    \A p \in Procs :
        (Finished(p, {"new", "update"}) /\ proc[p].writes >= 1)
            => proc[p].result.type = "redirect"

\* C2: when the metaobjectUpsert of a create or update request throws, the
\* row the handler wrote is in the store with the values it wrote and the
\* metaobjectId it had, and the handler returns a value (nothing escapes).
C2_ThrowKeepsRow ==
    \A p \in Procs :
        (proc[p].kind \in {"new", "update"} /\ proc[p].answers # <<>>
            /\ Last(proc[p].answers) = "throw")
        => /\ proc[p].pc = "done"
           /\ proc[p].result.type \in {"redirect", "errors"}
           /\ proc[p].id \in DOMAIN store
           /\ store[proc[p].id] = Written(p)

C2_Witness ==
    \E p \in Procs :
        /\ Finished(p, {"update"})
        /\ proc[p].answers = <<"throw">>
        /\ proc[p].existing.metaobjectId # NoId

\* C3: the store write that sets a service's metaobjectId happens once: no
\* later successful upsert of the service writes it again.
C3_RefWrittenOnce ==
    \A i \in DOMAIN refWrites : refWrites[i] <= 1

\* C4: a delete request (the delete intent of the edit route, the DELETE of
\* the list route) that removed the row issued exactly one metaobjectDelete,
\* by the row's metaobjectId, when the row had one, and no remote call when
\* it had none.
C4_DeleteCallsRemoteOnce ==
    \A p \in Procs :
        (Finished(p, {"delete", "listDelete"}) /\ proc[p].writes = 1)
        => /\ proc[p].id \notin DOMAIN store
           /\ proc[p].calls = IF gone[proc[p].id] # NoId
                                THEN <<DeleteCall(gone[proc[p].id])>>
                                ELSE <<>>

\* no request is being served
Quiet == \A p \in Procs : Free(p)

\* a step never takes a metaobjectId away from a row
RefNeverCleared ==
    \A i \in DOMAIN store :
        (i \in DOMAIN store' /\ store[i].metaobjectId # NoId)
            => store'[i].metaobjectId # NoId

Blank(raw) == raw = Null \/ \A i \in DOMAIN raw : raw[i] = WS

\* process p takes a step of a create or update request with a blank title
BlankStep(p) ==
    /\ proc'[p] # proc[p]
    /\ proc'[p].kind \in {"new", "plainNew", "update"}
    /\ Blank(proc'[p].form.title)

\* C6: a create or update form with a blank title gets back the error on
\* title and the trimmed values it sent, and the request writes nothing to
\* the store and calls nothing remote: store and shop are as they were.
C6_BlankTitleRejected ==
    /\ [](\A p \in Procs :
            (proc[p].kind \in {"new", "plainNew", "update"} /\ Blank(proc[p].form.title))
            => /\ proc[p].pc = "done"
               /\ proc[p].result.type = "errors"
               /\ proc[p].result.errors = [title |-> "Title is required"]
               /\ proc[p].result.values = FormTrimmed(proc[p].form)
               /\ proc[p].writes = 0
               /\ proc[p].calls = <<>>)
    /\ [][\A p \in Procs : BlankStep(p) => (store' = store /\ remote' = remote)]_vars

C6_Witness ==
    \E p \in Procs :
        /\ Finished(p, {"update"})
        /\ proc[p].form.title = <<WS, WS>>
        /\ proc[p].id \in DOMAIN store
        /\ proc[p].result.type = "errors"

\* how many of the upserts of process p's request got an answer in S
UpsertAnswers(p, S) ==
    Cardinality({ i \in DOMAIN proc[p].calls :
                    proc[p].calls[i].op = "metaobjectUpsert" /\ proc[p].answers[i] \in S })

\* process p has finished a setup run that got past the definition and
\* whose upserts were all answered with an object or with userErrors
SetupRan(p) ==
    /\ Finished(p, {"setup"})
    /\ proc[p].result.success
    /\ UpsertAnswers(p, {"throw", "nodata"}) = 0

\* the stats C7 expects of process p's run
ExpectedStats(p) ==
    [total   |-> Len(proc[p].services),
     success |-> Len(proc[p].services) - UpsertAnswers(p, {"userErrors"}),
     errors  |-> UpsertAnswers(p, {"userErrors"})]

Lines(logs, S) == Cardinality({ i \in DOMAIN logs : logs[i].type \in S })

\* the lines of a log that are about a service
ServiceLines(logs) ==
    LET About(l) == l.about > 0 IN SelectSeq(logs, About)

\* C8, as claimed: the log of a setup run over N services has exactly N
\* info lines and exactly N success or error lines.
C8_LogHasNInfoLines ==
    \A p \in Procs :
        (Finished(p, {"setup"}) /\ proc[p].result.success)
        => /\ Lines(proc[p].logs, {"info"}) = Len(proc[p].services)
           /\ Lines(proc[p].logs, {"success", "error"}) = Len(proc[p].services)

\* C8, amended: the log of a setup run over N services has, for each service
\* in turn, one info line before its attempt and one success or error line
\* after it; besides these it has the lines of the run itself: one info
\* line and one success line for a definition found (two info lines and one
\* success line for one created), two info lines for the fetch and one info
\* line for the summary.
C8_LogPerService ==
    \A p \in Procs :
        (Finished(p, {"setup"}) /\ proc[p].result.success)
        => LET n == Len(proc[p].services)
               about == ServiceLines(proc[p].logs)
               created == \E i \in DOMAIN proc[p].calls :
                              proc[p].calls[i].op = "metaobjectDefinitionCreate"
           IN /\ Len(about) = 2 * n
              /\ \A k \in 1..n :
                    /\ about[2 * k - 1].type = "info"
                    /\ about[2 * k - 1].about = k
                    /\ about[2 * k].type \in {"success", "error"}
                    /\ about[2 * k].about = k
              /\ Lines(proc[p].logs, {"info"}) = n + 4 + (IF created THEN 1 ELSE 0)
              /\ Lines(proc[p].logs, {"success", "error"}) = n + 1

C8_Witness ==
    \E p \in Procs :
        /\ Finished(p, {"setup"}) /\ proc[p].result.success
        /\ Len(proc[p].services) = 2
        /\ proc[p].result.stats.success = 1
        /\ proc[p].result.stats.errors = 1

\* a call of the definition step of process p's run failed
DefinitionFailed(p) ==
    \E i \in DOMAIN proc[p].calls :
        /\ proc[p].calls[i].op \in {"metaobjectDefinitions", "metaobjectDefinitionCreate"}
        /\ proc[p].answers[i] # "ok"

\* C9: a setup run whose definition step fails (userErrors on the create, a
\* throw of the query or of the create) stops there: no metaobjectUpsert, no
\* store write, a report with success false, an error as the last line of
\* the log and no success counted.
C9_NoDefinitionNoSync ==
    \A p \in Procs :
        (proc[p].kind = "setup" /\ DefinitionFailed(p))
        => /\ proc[p].pc = "done"
           /\ proc[p].result = [type |-> "report", success |-> FALSE]
           /\ \A i \in DOMAIN proc[p].calls : proc[p].calls[i].op # "metaobjectUpsert"
           /\ proc[p].writes = 0
           /\ Last(proc[p].logs).type = "error"
           /\ Lines(proc[p].logs, {"success"}) = 0
           /\ proc[p].successCount = 0

C9_Witness ==
    \E p \in Procs :
        /\ Finished(p, {"setup"})
        /\ proc[p].answers = <<"ok", "userErrors">>
        /\ store # <<>>

\* C10: a setup run that starts when the shop has the zoo_service definition
\* issues no metaobjectDefinitionCreate.
C10_NoCreateWhenDefined ==
    \A p \in Procs :
        (proc[p].kind = "setup" /\ proc[p].zooAtStart)
        => \A i \in DOMAIN proc[p].calls :
              proc[p].calls[i].op # "metaobjectDefinitionCreate"

\* every remote call of process p's request was answered with the object
AllOk(p) == \A i \in DOMAIN proc[p].answers : proc[p].answers[i] = "ok"

\* the metaobjectId of each row of a store
Refs(st) == [i \in DOMAIN st |-> st[i].metaobjectId]

\* process p has finished the second of two setup runs in a row, both past
\* the definition and both with every remote call answered with the object
TwoRuns(p) ==
    /\ Finished(p, {"setup"})
    /\ proc[p].result.success
    /\ proc[p].prior.setup
    /\ proc[p].prior.answersOk
    /\ AllOk(p)

\* the second run left the shop and the metaobjectIds as the first did, and
\* reports the same counts
SameAsPrior(p) ==
    /\ remote = proc[p].prior.remote
    /\ Refs(store) = Refs(proc[p].prior.store)
    /\ proc[p].result.stats.success = proc[p].prior.stats.success
    /\ proc[p].result.stats.errors = proc[p].prior.stats.errors

C12_UserErrorsNotFailure ==
    \A p \in Procs :
        (proc[p].kind \in {"new", "update"} /\ proc[p].answers # <<>>
            /\ Last(proc[p].answers) = "userErrors")
        => /\ proc[p].pc = "done"
           /\ proc[p].result =
                 Redirect(IF proc[p].kind = "new" THEN "/app" ELSE "/app/services")
           /\ proc[p].writes = 1
           /\ proc[p].id \in DOMAIN store
           /\ store[proc[p].id].metaobjectId = proc[p].existing.metaobjectId

C12_Witness ==
    \E p \in Procs :
        /\ Finished(p, {"update"})
        /\ proc[p].answers = <<"userErrors">>
        /\ proc[p].existing.found
        /\ proc[p].existing.metaobjectId = NoId
        /\ proc[p].result.type = "redirect"

\* C13: in the delete intent of the edit route, metaobjectDelete is issued
\* only after the row has been deleted from the store, once, and by the
\* metaobjectId read from that row; when the call throws the row stays
\* deleted and the handler returns the redirect.
C13_RemoteDeleteAfterLocal ==
    \A p \in Procs :
        proc[p].kind = "delete"
        => /\ (proc[p].pc = "remoteDelete" \/ proc[p].calls # <<>>)
                => /\ proc[p].writes = 1
                   /\ proc[p].id \notin DOMAIN store
                   /\ proc[p].existing.found
                   /\ proc[p].existing.metaobjectId # NoId
                   /\ proc[p].existing.metaobjectId = gone[proc[p].id]
           /\ proc[p].calls # <<>>
                => proc[p].calls = <<DeleteCall(proc[p].existing.metaobjectId)>>
           /\ (proc[p].answers # <<>> /\ Last(proc[p].answers) = "throw")
                => /\ proc[p].pc = "done"
                   /\ proc[p].result = Redirect("/app/services")
                   /\ proc[p].id \notin DOMAIN store

C13_Witness ==
    \E p \in Procs :
        /\ Finished(p, {"delete"})
        /\ proc[p].answers = <<"throw">>
        /\ proc[p].id \notin DOMAIN store
        /\ proc[p].existing.metaobjectId \in DOMAIN remote
        /\ proc[p].result = Redirect("/app/services")

\* a form with a title and with description and imageUrl absent or blank
BlankButTitle(f) == ~Blank(f.title) /\ Blank(f.description) /\ Blank(f.imageUrl)

\* process p's create request writes its row in this step
CreateStep(p) ==
    /\ proc[p].kind \in {"new", "plainNew"}
    /\ proc[p].pc = "create"
    /\ proc'[p].writes = 1

\* C14: a create request with a non-blank title and with description and
\* imageUrl absent or blank adds exactly one row to the store, the other
\* rows untouched; the row's title is the trimmed title and its description
\* and imageUrl are null.
C14_BareServiceCreated ==
    /\ [](\A p \in Procs :
            (proc[p].kind \in {"new", "plainNew"} /\ BlankButTitle(proc[p].form)
                /\ proc[p].writes >= 1)
            => /\ proc[p].id \in DOMAIN store
               /\ store[proc[p].id].title = Trim(proc[p].form.title)
               /\ store[proc[p].id].description = Null
               /\ store[proc[p].id].imageUrl = Null)
    /\ [][\A p \in Procs :
            (CreateStep(p) /\ BlankButTitle(proc[p].form))
            => /\ proc'[p].id \notin DOMAIN store
               /\ DOMAIN store' = DOMAIN store \cup {proc'[p].id}
               /\ \A i \in DOMAIN store : store'[i] = store[i]]_vars

C14_Witness ==
    \E p \in Procs :
        /\ Finished(p, {"new"})
        /\ proc[p].form = [title |-> <<WS, "a", WS>>, description |-> <<WS>>,
                           imageUrl |-> Null]
        /\ proc[p].id = 2
        /\ DOMAIN store = {1, 2}
        /\ store[2].title = <<"a">>
        /\ store[2].description = Null
        /\ store[1].title = <<"b">>

\* process p issues a remote call in this step
CallStep(p) ==
    /\ proc'[p].kind \in {"new", "update", "delete"}
    /\ Len(proc'[p].calls) > Len(proc[p].calls)

\* C15: in the create, update and delete-intent handlers the store write of
\* the row (create, update, delete) is complete before the step that issues
\* the request's first remote call, and a request whose validation failed or
\* whose store write threw issues no remote call.
C15_StoreBeforeRemote ==
    /\ [](\A p \in Procs :
            proc[p].kind \in {"new", "update", "delete"}
            => /\ (proc[p].calls # <<>> \/ proc[p].pc \in {"upsert", "remoteDelete"})
                    => proc[p].writes >= 1
               /\ (proc[p].pc = "done" /\ proc[p].writes = 0)
                    => (proc[p].calls = <<>> /\ proc[p].result.type = "errors"))
    /\ [][\A p \in Procs :
            CallStep(p) => (proc[p].kind = proc'[p].kind /\ proc[p].writes >= 1)]_vars

C15_Witness ==
    \E p \in Procs :
        /\ Finished(p, {"update"})
        /\ proc[p].writes = 1
        /\ Len(proc[p].calls) = 1
        /\ store[proc[p].id] = Written(p)

\* the metaobjectUpsert calls of process p's request, in the order issued
Upserts(p) ==
    LET IsUpsert(c) == c.op = "metaobjectUpsert" IN SelectSeq(proc[p].calls, IsUpsert)

\* process p's setup run is in its loop over the services
InLoop(p) == proc[p].kind = "setup" /\ proc[p].pc \in {"upsert", "persist"}

\* process p's setup run has returned its report with stats
Reported(p) == Finished(p, {"setup"}) /\ proc[p].result.success

\* how far process p's setup run is in its loop: two steps per service
Progress(q) == 2 * q.idx + (IF q.pc = "persist" THEN 1 ELSE 0)

\* process p's setup run takes a step of its loop
LoopStep(p) == InLoop(p) /\ proc'[p] # proc[p]

\* C16: a setup run that has listed N services ends with its report: in the
\* loop a step is always possible, every step takes the run further through
\* the list or to the report, and the list is finite.  By the report the run
\* has issued one metaobjectUpsert per service, in the order of the list,
\* whatever the outcome of each (userErrors, a throw, a failed store write
\* of the returned id); it issues at most one remote call per step; and in
\* the stats total = N and success + errors = total.
C16_LoopRunsToTheEnd ==
    /\ [](\A p \in Procs :
            /\ InLoop(p)
                => /\ ENABLED (SetupUpsert(p) \/ SetupPersist(p))
                   /\ proc[p].idx \in 1..Len(proc[p].services)
                   /\ Len(Upserts(p)) =
                         proc[p].idx - (IF proc[p].pc = "upsert" THEN 1 ELSE 0)
            /\ Reported(p)
                => /\ Len(Upserts(p)) = Len(proc[p].services)
                   /\ \A k \in 1..Len(proc[p].services) :
                        /\ Upserts(p)[k].addr.handle = <<"service-", proc[p].services[k].id>>
                        /\ Upserts(p)[k].fields = SetupFields(proc[p].services[k])
                   /\ proc[p].result.stats.total = Len(proc[p].services)
                   /\ proc[p].result.stats.success + proc[p].result.stats.errors
                         = proc[p].result.stats.total)
    /\ [][\A p \in Procs :
            /\ Len(proc'[p].calls) <= Len(proc[p].calls) + 1
            /\ LoopStep(p)
                => \/ Reported(p)'
                   \/ InLoop(p)' /\ Progress(proc'[p]) > Progress(proc[p])]_vars

C16_Witness ==
    \E p \in Procs :
        /\ Reported(p)
        /\ Len(proc[p].services) = 2
        /\ proc[p].answers[Len(proc[p].answers) - 1] = "throw"
        /\ Last(proc[p].answers) = "ok"
        /\ proc[p].writes = 0
        /\ proc[p].result.stats.errors = 2

\* C17: every metaobjectUpsert of a create request is addressed by the bare
\* type; of an update request, by the id read from the row before the update
\* when that is not null, and by the bare type otherwise; of a setup run, by
\* the handle "service-" + id of the service of that turn, whatever
\* metaobjectId the row has.
C17_AddressingPerCallSite ==
    \A p \in Procs :
        \A k \in DOMAIN Upserts(p) :
            LET addr == Upserts(p)[k].addr
                bare == [by |-> "type", id |-> NoId, handle |-> NoHandle]
            IN /\ proc[p].kind = "new" => addr = bare
               /\ proc[p].kind = "update"
                    => addr = IF proc[p].existing.metaobjectId # NoId
                                THEN [by |-> "id", id |-> proc[p].existing.metaobjectId,
                                      handle |-> NoHandle]
                                ELSE bare
               /\ proc[p].kind = "setup"
                    => addr = [by |-> "handle", id |-> NoId,
                               handle |-> <<"service-", proc[p].services[k].id>>]

C17_Witness ==
    \E p \in Procs :
        /\ Finished(p, {"setup"})
        /\ Len(Upserts(p)) = 1
        /\ Upserts(p)[1].addr.by = "handle"
        /\ proc[p].answers[Len(proc[p].answers)] = "userErrors"
        /\ proc[p].services[1].id \in DOMAIN store
        /\ store[proc[p].services[1].id].metaobjectId # NoId

\* process p has finished an update (with a valid title) or a delete intent
\* for an id that has no row
MissingId(p) ==
    /\ Finished(p, {"update", "delete"})
    /\ proc[p].kind = "update" => proc[p].vals.title # <<>>
    /\ proc[p].writes = 0
    /\ proc[p].id \notin DOMAIN store

\* C18: an update or a delete intent for an id that has no row returns the
\* error under errors.form, has written nothing to the store and has issued
\* no remote call.
C18_MissingIdFormError ==
    \A p \in Procs :
        MissingId(p)
        => /\ proc[p].result.type = "errors"
           /\ DOMAIN proc[p].result.errors = {"form"}
           /\ proc[p].writes = 0
           /\ proc[p].calls = <<>>

\* the shop's entries that were created by an upsert for service i
EntriesFor(i) == { g \in DOMAIN remote : madeFor[g] = i }

\* no request so far has met a failure
NoFailure ==
    /\ ~failed
    /\ \A p \in Procs : AllOk(p) /\ ~Faulty(proc[p])

\* C19: when no remote call has failed, each row has at most one entry of
\* the shop that was created for it, and after the delete intent of the edit
\* route has deleted a row no entry created for it is left.
C19_OneEntryPerService ==
    NoFailure
    => /\ \A i \in DOMAIN store : Cardinality(EntriesFor(i)) <= 1
       /\ \A p \in Procs :
            (Finished(p, {"delete"}) /\ proc[p].writes = 1)
                => EntriesFor(proc[p].id) = {}

\* the keys of the fields of a call
Keys(fields) == { fields[j].key : j \in DOMAIN fields }

\* C20: every field key of every metaobjectUpsert is a key of the zoo_service
\* definition (title, description, image_url); title is always among them;
\* in the create and update requests description is sent exactly when the
\* trimmed description is not empty and one image field exactly when the
\* trimmed imageUrl is not empty.
C20_KeysDeclared ==
    \A p \in Procs :
        \A k \in DOMAIN Upserts(p) :
            LET keys == Keys(Upserts(p)[k].fields) IN
            /\ keys \subseteq DefinitionKeys
            /\ "title" \in keys
            /\ proc[p].kind \in {"new", "update"}
                => /\ "description" \in keys <=> proc[p].vals.description # <<>>
                   /\ (keys \ {"title", "description"} # {})
                         <=> proc[p].vals.imageUrl # <<>>

\* the two processes have each completed one update of service i, no call of
\* either having failed
BothUpdated(i) ==
    /\ served = 2
    /\ \A p \in Procs :
          /\ Finished(p, {"update"})
          /\ proc[p].id = i
          /\ proc[p].result.type = "redirect"
          /\ AllOk(p)
          /\ proc[p].calls # <<>>

\* the title the shop's entry g has
RemoteTitle(g) == (CHOOSE f \in remote[g].fields : f.key = "title").value

\* C21: once two update requests on the same service have both completed,
\* every store and remote call having succeeded, the entry the row's
\* metaobjectId names has the row's title, and when the row had no
\* metaobjectId before the two requests exactly one entry was created for it.
C21_TwoUpdatesAgree ==
    \A i \in DOMAIN store :
        BothUpdated(i)
        => /\ store[i].metaobjectId \in DOMAIN remote
           /\ RemoteTitle(store[i].metaobjectId) = store[i].title
           /\ (\E p \in Procs : proc[p].existing.metaobjectId = NoId)
                 => Cardinality(EntriesFor(i)) = 1

====
